---- MODULE Spec2Model ----
(***************************************************************************)
(* Model of the MSD risk survey tool (src/app.py): the three scorers, the  *)
(* tier classifier, the recommendation selector, and the four pages of the *)
(* Streamlit script (New Survey, History & Trends, Import/Export, Admin)   *)
(* acting on the session state (the record store df and the thresholds).  *)
(*                                                                         *)
(* Floating point scores are modelled by exact rationals [num, den] in     *)
(* lowest terms.                                                           *)
(***************************************************************************)
EXTENDS Integers, Sequences, FiniteSets, TLC

VARIABLES
    thresholds,   \* st.session_state.thresholds: [high, med_high, med]
    df,           \* st.session_state.df: [columns, rows]
    page,         \* the page the last script run rendered
    msg,          \* the status message the last script run showed
    preview,      \* Admin page: the tier_preview column of the copy
    recs,         \* New Survey page: the suggested controls listed
    upload,       \* Import/Export page: the file in the uploader
    call,         \* pure-function harness: the call being made
    ret           \* pure-function harness: [done, v]

vars == <<thresholds, df, page, msg, preview, recs, upload, call, ret>>

----------------------------------------------------------------------------
(* Exact rational arithmetic standing in for Python floats.                *)

Abs(i) == IF i < 0 THEN -i ELSE i

RECURSIVE GCD(_, _)
GCD(a, b) == IF b = 0 THEN a ELSE GCD(b, a % b)

\* n/d in lowest terms with a positive denominator (d # 0)
R(n, d) ==
    LET s == IF d < 0 THEN -1 ELSE 1
        g == GCD(Abs(n), Abs(d))
    IN  [num |-> (s * n) \div g, den |-> (s * d) \div g]

I(i) == [num |-> i, den |-> 1]

RAdd(a, b) == R(a.num * b.den + b.num * a.den, a.den * b.den)
RSub(a, b) == R(a.num * b.den - b.num * a.den, a.den * b.den)
RMul(a, b) == R(a.num * b.num, a.den * b.den)
RDiv(a, b) == R(a.num * b.den, a.den * b.num)
RLe(a, b)  == a.num * b.den <= b.num * a.den
RLt(a, b)  == a.num * b.den < b.num * a.den
RGe(a, b)  == RLe(b, a)

\* np.interp(x, xp, fp): piecewise linear, flat outside [xp[1], xp[Len(xp)]]
Interp(x, xp, fp) ==
    LET n == Len(xp) IN
    IF RLe(x, xp[1]) THEN fp[1]
    ELSE IF RGe(x, xp[n]) THEN fp[n]
    ELSE LET i == CHOOSE j \in 1..(n - 1) : RLe(xp[j], x) /\ RLt(x, xp[j + 1])
             slope == RDiv(RSub(fp[i + 1], fp[i]), RSub(xp[i + 1], xp[i]))
         IN  RAdd(RMul(slope, RSub(x, xp[i])), fp[i])

\* np.clip(x, lo, hi), without its upper limit
ClipNoUpper(x, lo, hi) == IF RLt(x, lo) THEN lo ELSE x

\* np.clip(x, lo, hi)
Clip(x, lo, hi) == IF RLt(x, lo) THEN lo ELSE IF RLt(hi, x) THEN hi ELSE x

\* dict.get(key, default) on a dict with string keys
Get(dict, key, default) == IF key \in DOMAIN dict THEN dict[key] ELSE default

----------------------------------------------------------------------------
(* Utilities & Defaults                                                    *)

DEFAULT_THRESHOLDS == [high |-> 70, med_high |-> 50, med |-> 35]

COLUMNS ==
    << "timestamp", "tool", "task_name",
       "duration_min", "frequency_per_hr", "posture",
       "load_kg", "lift_height",
       "push_pull_force_kg", "distance_m", "surface",
       "reps_per_min", "cycle_time_sec", "neck_shoulder_awk",
       "risk_score", "risk_tier" >>

POSTURES == <<"neutral", "bending", "twisting", "reaching">>
LIFT_HEIGHTS == <<"floor", "knee", "waist", "shoulder">>
SURFACES == <<"smooth", "rough">>
NECK_SHOULDER == <<"none", "mild", "severe">>

Range(s) == {s[i] : i \in DOMAIN s}

----------------------------------------------------------------------------
(* Risk model                                                              *)

\* tier_from_score with strict comparisons
TierFromScoreStrict(score, thres) ==
    IF RLt(I(thres.high), score) THEN "High"
    ELSE IF RLt(I(thres.med_high), score) THEN "Med-High"
    ELSE IF RLt(I(thres.med), score) THEN "Medium"
    ELSE "Low"

TierFromScore(score, thres) ==
    IF RGe(score, I(thres.high)) THEN "High"
    ELSE IF RGe(score, I(thres.med_high)) THEN "Med-High"
    ELSE IF RGe(score, I(thres.med)) THEN "Medium"
    ELSE "Low"

ScoreNzmac(load_kg, frequency_per_hr, posture, lift_height) ==
    LET load_points == Interp(load_kg, <<I(0), I(5), I(10), I(20), I(35)>>,
                              <<I(5), I(15), I(30), I(55), I(75)>>)
        freq_mult == Interp(frequency_per_hr, <<I(0), I(10), I(30), I(60)>>,
                            <<R(10, 10), R(11, 10), R(125, 100), R(14, 10)>>)
        posture_pen == Get([neutral |-> R(10, 10), bending |-> R(115, 100),
                            twisting |-> R(12, 10), reaching |-> R(11, 10)],
                           posture, R(10, 10))
        height_pen == Get([floor |-> R(125, 100), knee |-> R(115, 100),
                           waist |-> R(10, 10), shoulder |-> R(12, 10)],
                          lift_height, R(10, 10))
        score == RMul(RMul(RMul(load_points, freq_mult), posture_pen), height_pen)
    IN  Clip(score, I(5), I(100))

ScoreNzrapp(push_pull_force_kg, distance_m, surface, frequency_per_hr) ==
    LET force_points == Interp(push_pull_force_kg,
                               <<I(0), I(5), I(10), I(20), I(35)>>,
                               <<I(5), I(15), I(28), I(48), I(70)>>)
        dist_mult == Interp(distance_m, <<I(0), I(10), I(30), I(60)>>,
                            <<R(10, 10), R(105, 100), R(115, 100), R(125, 100)>>)
        surface_pen == Get([smooth |-> R(10, 10), rough |-> R(115, 100)],
                           surface, R(10, 10))
        freq_mult == Interp(frequency_per_hr, <<I(0), I(10), I(30), I(60)>>,
                            <<R(10, 10), R(11, 10), R(12, 10), R(13, 10)>>)
        score == RMul(RMul(RMul(force_points, dist_mult), surface_pen), freq_mult)
    IN  Clip(score, I(5), I(100))

ScoreNzart(reps_per_min, cycle_time_sec, neck_shoulder_awk, posture) ==
    LET rep_points == Interp(reps_per_min, <<I(0), I(10), I(20), I(40), I(60)>>,
                             <<I(5), I(15), I(30), I(55), I(75)>>)
        cycle_adj == Interp(cycle_time_sec, <<I(5), I(20), I(60)>>,
                            <<R(125, 100), R(11, 10), R(10, 10)>>)
        neck_pen == Get([none |-> R(10, 10), mild |-> R(115, 100),
                         severe |-> R(135, 100)],
                        neck_shoulder_awk, R(10, 10))
        posture_pen == Get([neutral |-> R(10, 10), bending |-> R(11, 10),
                            twisting |-> R(115, 100), reaching |-> R(12, 10)],
                           posture, R(10, 10))
        score == RMul(RMul(RMul(rep_points, cycle_adj), neck_pen), posture_pen)
    IN  Clip(score, I(5), I(100))

REC_ROTATE == "Rotate tasks to reduce exposure time."
REC_BREAKS == "Provide micro-breaks and encourage neutral postures."
REC_TRAIN == "Train staff on safe techniques and early symptom reporting."
REC_ENGINEERING ==
    "Consider engineering controls (lifting aids, height-adjustable benches)."
REC_NZMAC == "Reduce load weight or split lifts into smaller units."
REC_NZRAPP ==
    "Reduce initial push/pull force and improve wheel/surface condition."
REC_NZART ==
    "Redesign tasks to lower repetition rate or awkward neck/shoulder posture."

\* base[:n]
Take(s, n) == SubSeq(s, 1, IF Len(s) < n THEN Len(s) ELSE n)

\* recommendations without the final cut to four entries
RecommendationsNoCut(tier, tool) ==
    LET base == <<REC_ROTATE, REC_BREAKS, REC_TRAIN>>
    IN  IF tier \in {"Med-High", "High"}
        THEN LET b0 == <<REC_ENGINEERING>> \o base
                 b1 == IF tool = "NZMAC" THEN Append(b0, REC_NZMAC) ELSE b0
                 b2 == IF tool = "NZRAPP" THEN Append(b1, REC_NZRAPP) ELSE b1
             IN  IF tool = "NZART" THEN Append(b2, REC_NZART) ELSE b2
        ELSE base

Recommendations(tier, tool) ==
    LET base == <<REC_ROTATE, REC_BREAKS, REC_TRAIN>>
        full == IF tier \in {"Med-High", "High"}
                THEN LET b0 == <<REC_ENGINEERING>> \o base
                         b1 == IF tool = "NZMAC" THEN Append(b0, REC_NZMAC) ELSE b0
                         b2 == IF tool = "NZRAPP" THEN Append(b1, REC_NZRAPP) ELSE b1
                     IN  IF tool = "NZART" THEN Append(b2, REC_NZART) ELSE b2
                ELSE base
    IN  Take(full, 4)

----------------------------------------------------------------------------
(* Session state after init_state()                                        *)

\* A cell of the DataFrame: None, NaN, a string or a number
NoneCell == [k |-> "None"]
NaNCell == [k |-> "NaN"]
Str(s) == [k |-> "str", s |-> s]
Num(r) == [k |-> "num", v |-> r]
IsNull(c) == c.k \in {"None", "NaN"}

ColumnIndex(cols, c) == CHOOSE i \in DOMAIN cols : cols[i] = c

\* One row of a DataFrame whose columns are cols, from the values in order
MakeRow(cols, vals) == [c \in Range(cols) |-> vals[ColumnIndex(cols, c)]]

\* datetime.now().strftime("%Y-%m-%d %H:%M")
NOW == "2026-11-01 04:42"

\* pd.DataFrame(demo, columns=COLUMNS): a numeric column holds None as NaN
DemoRows ==
    << MakeRow(COLUMNS,
         <<Str(NOW), Str("NZMAC"), Str("Lift cartons"), Num(I(10)), Num(I(30)),
           Str("bending"), Num(I(12)), Str("knee"), NaNCell, NaNCell, NoneCell,
           NaNCell, NaNCell, Str("mild"), Num(I(58)), Str("Med-High")>>),
       MakeRow(COLUMNS,
         <<Str(NOW), Str("NZRAPP"), Str("Push trolley"), Num(I(8)), Num(I(20)),
           Str("neutral"), NaNCell, NoneCell, Num(I(18)), Num(I(25)),
           Str("smooth"), NaNCell, NaNCell, Str("none"), Num(I(42)),
           Str("Medium")>>),
       MakeRow(COLUMNS,
         <<Str(NOW), Str("NZART"), Str("Soldering"), Num(I(15)), Num(I(40)),
           Str("reaching"), NaNCell, NoneCell, NaNCell, NaNCell, NoneCell,
           Num(I(28)), Num(I(12)), Str("severe"), Num(I(76)), Str("High")>>) >>

NoCall == [fn |-> "none", args |-> <<>>]
NoRet == [done |-> FALSE, v |-> <<>>]
NoUpload == [kind |-> "none", header |-> <<>>, lines |-> <<>>]

InitState ==
    /\ df = [columns |-> COLUMNS, rows |-> DemoRows]
    /\ thresholds = DEFAULT_THRESHOLDS
    /\ page = "New Survey"
    /\ msg = ""
    /\ preview = <<>>
    /\ recs = <<>>
    /\ upload = NoUpload

----------------------------------------------------------------------------
(* Page: New Survey                                                        *)

MaxRows == 4

TOOLS ==
    <<"NZMAC (Lifting)", "NZRAPP (Pushing/Pulling)",
      "NZART (Repetitive Upper Limb)">>

\* The values the form's widgets hand to the script on a submit: the common
\* fields and, in w, the inputs of the chosen tool in the order drawn.
SurveyForms ==
    {[tool |-> TOOLS[1], task_name |-> "NA", duration_min |-> I(10),
      frequency_per_hr |-> I(60), posture |-> "bending",
      w |-> <<I(9), "knee">>],
     [tool |-> TOOLS[2], task_name |-> "", duration_min |-> I(8),
      frequency_per_hr |-> I(20), posture |-> "neutral",
      w |-> <<I(18), I(25), "smooth">>],
     [tool |-> TOOLS[3], task_name |-> "Soldering", duration_min |-> I(15),
      frequency_per_hr |-> I(40), posture |-> "reaching",
      w |-> <<I(28), I(12), "severe">>]}

\* round(score, 1). A score that lies exactly between two tenths is a float
\* next to that midpoint, and either tenth may come out.
Round1(score) ==
    LET t == RMul(score, I(10))
        fl == t.num \div t.den
        rem == t.num - fl * t.den
    IN  IF 2 * rem < t.den THEN {R(fl, 10)}
        ELSE IF 2 * rem > t.den THEN {R(fl + 1, 10)}
        ELSE {R(fl, 10), R(fl + 1, 10)}

\* pd.concat([d, pd.DataFrame([row])], ignore_index=True), row keyed by COLUMNS
Concat(d, row) ==
    [columns |-> d.columns \o SelectSeq(COLUMNS, LAMBDA c : c \notin Range(d.columns)),
     rows |-> [i \in 1..Len(d.rows) |->
                  [c \in Range(d.columns) \cup Range(COLUMNS) |->
                      IF c \in Range(d.columns) THEN d.rows[i][c] ELSE NaNCell]]
              \o <<[c \in Range(d.columns) \cup Range(COLUMNS) |->
                      IF c \in DOMAIN row THEN row[c] ELSE NaNCell]>>]

SubmitSurvey ==
    /\ Len(df.rows) < MaxRows
    /\ \E form \in SurveyForms :
        LET tool == form.tool
            nzmac == tool = TOOLS[1]
            nzrapp == tool = TOOLS[2]
            load_kg == IF nzmac THEN Num(form.w[1]) ELSE NoneCell
            lift_height == IF nzmac THEN Str(form.w[2]) ELSE NoneCell
            push_pull_force_kg == IF nzrapp THEN Num(form.w[1]) ELSE NoneCell
            distance_m == IF nzrapp THEN Num(form.w[2]) ELSE NoneCell
            surface == IF nzrapp THEN Str(form.w[3]) ELSE NoneCell
            reps_per_min ==
                IF nzmac \/ nzrapp THEN NoneCell ELSE Num(form.w[1])
            cycle_time_sec ==
                IF nzmac \/ nzrapp THEN NoneCell ELSE Num(form.w[2])
            neck_shoulder_awk ==
                IF nzmac THEN "mild" ELSE IF nzrapp THEN "none" ELSE form.w[3]
            score ==
                IF nzmac
                THEN ScoreNzmac(load_kg.v, form.frequency_per_hr, form.posture,
                                lift_height.s)
                ELSE IF nzrapp
                THEN ScoreNzrapp(push_pull_force_kg.v, distance_m.v, surface.s,
                                 form.frequency_per_hr)
                ELSE ScoreNzart(reps_per_min.v, cycle_time_sec.v,
                                neck_shoulder_awk, form.posture)
            tool_tag == IF nzmac THEN "NZMAC" ELSE IF nzrapp THEN "NZRAPP" ELSE "NZART"
            tier == TierFromScore(score, thresholds)
        IN  \E rounded \in Round1(score) :
            LET row == MakeRow(COLUMNS,
                    <<Str(NOW), Str(tool_tag),
                      Str(IF form.task_name = "" THEN "(untitled task)"
                          ELSE form.task_name),
                      Num(form.duration_min), Num(form.frequency_per_hr),
                      Str(form.posture), load_kg, lift_height,
                      push_pull_force_kg, distance_m, surface, reps_per_min,
                      cycle_time_sec, Str(neck_shoulder_awk), Num(rounded),
                      Str(tier)>>)
            IN  /\ df' = Concat(df, row)
                /\ msg' = "Saved!"
                /\ recs' = Recommendations(tier, tool_tag)
    /\ page' = "New Survey"
    /\ preview' = <<>>
    /\ upload' = NoUpload
    /\ UNCHANGED <<thresholds, call, ret>>

----------------------------------------------------------------------------
(* Page: History & Trends                                                  *)

ViewHistory ==
    /\ \E filt_tool \in {"All", "NZMAC", "NZRAPP", "NZART"} :
        LET copy == df
            filtered ==
                IF filt_tool # "All"
                THEN SelectSeq(copy.rows,
                        LAMBDA r : r["tool"].k = "str" /\ r["tool"].s = filt_tool)
                ELSE copy.rows
        IN  msg' = IF filtered = <<>> THEN "No data for the current filter."
                   ELSE ""
    /\ page' = "History & Trends"
    /\ preview' = <<>>
    /\ recs' = <<>>
    /\ upload' = NoUpload
    /\ UNCHANGED <<thresholds, df, call, ret>>

----------------------------------------------------------------------------
(* Page: Import/Export                                                     *)

\* The text of one CSV field: a string as written, or the numeral of a number
Text(s) == [t |-> "text", s |-> s]
Numeral(v) == [t |-> "numeral", v |-> v]

\* What to_csv writes for a cell: nothing for None and NaN
Format(cell) ==
    IF IsNull(cell) THEN Text("")
    ELSE IF cell.k = "str" THEN Text(cell.s)
    ELSE Numeral(cell.v)

\* d.to_csv(index=False)
ToCsv(d) ==
    [kind |-> "csv",
     header |-> d.columns,
     lines |-> [i \in 1..Len(d.rows) |->
                  [j \in 1..Len(d.columns) |-> Format(d.rows[i][d.columns[j]])]]]

\* The strings pd.read_csv reads as NaN by default
NA_VALUES ==
    {"", "#N/A", "#N/A N/A", "#NA", "-1.#IND", "-1.#QNAN", "-NaN", "-nan",
     "1.#IND", "1.#QNAN", "<NA>", "N/A", "NA", "NULL", "NaN", "n/a", "nan",
     "null"}

\* What read_csv makes of one field
Parse(field) ==
    IF field.t = "numeral" THEN Num(field.v)
    ELSE IF field.s \in NA_VALUES THEN NaNCell
    ELSE Str(field.s)

\* pd.read_csv(up): raises on a file that is no CSV table
ReadCsv(up) ==
    IF up.kind # "csv"
    THEN [ok |-> FALSE, columns |-> <<>>, rows |-> <<>>]
    ELSE [ok |-> TRUE,
          columns |-> up.header,
          rows |-> [i \in 1..Len(up.lines) |->
                      [c \in Range(up.header) |->
                          Parse(up.lines[i][ColumnIndex(up.header, c)])]]]

\* for c in COLUMNS: if c not in new_df.columns: new_df[c] = None
FillMissing(t) ==
    [columns |-> t.columns \o SelectSeq(COLUMNS, LAMBDA c : c \notin Range(t.columns)),
     rows |-> [i \in 1..Len(t.rows) |->
                  [c \in Range(t.columns) \cup Range(COLUMNS) |->
                      IF c \in Range(t.columns) THEN t.rows[i][c] ELSE NoneCell]]]

\* new_df[COLUMNS]
SelectColumns(t, cols) ==
    [columns |-> cols,
     rows |-> [i \in 1..Len(t.rows) |-> [c \in Range(cols) |-> t.rows[i][c]]]]

\* A file that read_csv cannot parse
MALFORMED_FILE == [kind |-> "garbage", header |-> <<>>, lines |-> <<>>]

\* A table with some of the schema's columns, out of order, and one more
PARTIAL_FILE ==
    [kind |-> "csv",
     header |-> <<"risk_score", "notes", "task_name", "tool">>,
     lines |-> << <<Numeral(R(699, 10)), Text("checked"), Text("Packing"),
                    Text("NZMAC")>>,
                  <<Text(""), Text("n/a"), Text("Sorting"), Text("NZART")>>,
                  <<Numeral(I(35)), Text(""), Text("Stacking"),
                    Text("NZMAC")>>,
                  <<Numeral(I(50)), Text("NA"), Text("Wrapping"),
                    Text("NZRAPP")>> >>]

\* A table without the risk_score column
SCORELESS_FILE ==
    [kind |-> "csv",
     header |-> <<"task_name", "tool">>,
     lines |-> << <<Text("Sweeping"), Text("NZRAPP")>>,
                  <<Text("Mopping"), Text("NZRAPP")>>,
                  <<Text("Sanding"), Text("NZART")>>,
                  <<Text("Sorting"), Text("NZART")>> >>]

\* The files a user may upload: the current download, or one of the above
Uploads == {ToCsv(df), MALFORMED_FILE, PARTIAL_FILE, SCORELESS_FILE}

\* The import with the store assigned before the parse is known to be good
ImportCSVEager ==
    /\ \E up \in Uploads :
        LET new_df == ReadCsv(up)
        IN  /\ upload' = up
            /\ df' = SelectColumns(FillMissing(new_df), COLUMNS)
            /\ msg' = IF new_df.ok THEN "Data replaced." ELSE "Import failed"
    /\ page' = "Import/Export"
    /\ preview' = <<>>
    /\ recs' = <<>>
    /\ UNCHANGED <<thresholds, call, ret>>

ImportCSV ==
    /\ \E up \in Uploads :
        LET new_df == ReadCsv(up)
        IN  /\ upload' = up
            /\ IF new_df.ok
               THEN /\ df' = SelectColumns(FillMissing(new_df), COLUMNS)
                    /\ msg' = "Data replaced."
               ELSE /\ df' = df
                    /\ msg' = "Import failed"
    /\ page' = "Import/Export"
    /\ preview' = <<>>
    /\ recs' = <<>>
    /\ UNCHANGED <<thresholds, call, ret>>

----------------------------------------------------------------------------
(* Page: Admin                                                             *)

\* The slider positions the model lets the user pick
SliderStops == {55, 60}

\* st.slider(label, min_value, max_value, value, 1): the values it can return
Slider(min_value, max_value, value) ==
    {v \in min_value..max_value : v \in SliderStops \/ v = value}

\* st.slider raises when value lies outside min_value..max_value
SliderRaises(min_value, max_value, value) ==
    value \notin min_value..max_value

\* tier_from_score(s, th) on a cell of the risk_score column
PreviewRaises(cell) == cell.k \in {"None", "str"}
PreviewTier(cell, th) ==
    IF cell.k = "NaN" THEN "Low" ELSE TierFromScore(cell.v, th)

\* The Admin page's run; copy tells whether the preview column is put on a
\* copy of the store (df = st.session_state.df.copy()) or on the store.
AdminScript(copy) ==
    /\ \E h \in Slider(55, 95, thresholds.high) :
        LET th1 == [thresholds EXCEPT !.high = h] IN
        IF SliderRaises(40, th1.high, th1.med_high)
        THEN /\ thresholds' = th1
             /\ msg' = "StreamlitAPIException"
             /\ preview' = <<>>
             /\ df' = df
        ELSE \E mh \in Slider(40, th1.high, th1.med_high) :
            LET th2 == [th1 EXCEPT !.med_high = mh] IN
            IF SliderRaises(20, th2.med_high, th2.med)
            THEN /\ thresholds' = th2
                 /\ msg' = "StreamlitAPIException"
                 /\ preview' = <<>>
                 /\ df' = df
            ELSE \E m \in Slider(20, th2.med_high, th2.med) :
                LET th == [th2 EXCEPT !.med = m]
                    scores == [i \in 1..Len(df.rows) |-> df.rows[i]["risk_score"]]
                IN  IF \E i \in DOMAIN scores : PreviewRaises(scores[i])
                    THEN /\ thresholds' = th
                         /\ msg' = "TypeError"
                         /\ preview' = <<>>
                         /\ df' = df
                    ELSE LET tier_preview ==
                                [i \in DOMAIN scores |-> PreviewTier(scores[i], th)]
                         IN  /\ preview' = tier_preview
                             /\ df' = IF copy THEN df
                                      ELSE [df EXCEPT !.rows =
                                              [i \in DOMAIN scores |->
                                                 [df.rows[i] EXCEPT
                                                    !["risk_tier"] = Str(tier_preview[i])]]]
                             /\ \E reset \in BOOLEAN :
                                 IF reset
                                 THEN /\ thresholds' = DEFAULT_THRESHOLDS
                                      /\ msg' = "Reset done."
                                 ELSE /\ thresholds' = th
                                      /\ msg' = ""
    /\ page' = "Admin (Thresholds)"
    /\ recs' = <<>>
    /\ upload' = NoUpload
    /\ UNCHANGED <<call, ret>>

AdminRunInPlace == AdminScript(FALSE)

AdminRun == AdminScript(TRUE)

----------------------------------------------------------------------------
(* The application: one action per script run                              *)

Init ==
    /\ InitState
    /\ call = NoCall
    /\ ret = NoRet

Next ==
    \/ SubmitSurvey
    \/ ViewHistory
    \/ ImportCSV
    \/ AdminRun

Spec == Init /\ [][Next]_vars

----------------------------------------------------------------------------
(* The pure functions, each applied once to inputs drawn by the initial    *)
(* state.                                                                  *)

LoadInputs == {I(-5), I(0), I(9), I(12), R(25, 2), I(35), I(80)}
FrequencyInputs == {I(-1), I(0), I(20), I(30), I(47), I(60), I(120)}
ForceInputs == {I(-5), I(0), I(18), R(45, 2), I(35), I(60)}
DistanceInputs == {I(-1), I(0), I(25), I(37), I(200)}
RepsInputs == {I(-2), I(0), I(28), I(45), I(60), I(120)}
CycleInputs == {I(-4), I(2), I(12), I(33), I(120)}
PostureInputs == Range(POSTURES) \cup {"kneeling"}
HeightInputs == Range(LIFT_HEIGHTS) \cup {"overhead"}
SurfaceInputs == Range(SURFACES) \cup {"gravel"}
NeckInputs == Range(NECK_SHOULDER) \cup {"extreme"}
ScoreInputs ==
    {I(-3), I(5), R(349, 10), I(35), R(499, 10), I(50), R(699, 10), I(70),
     I(100), I(150)}
ThresholdInputs ==
    {DEFAULT_THRESHOLDS,
     [high |-> 55, med_high |-> 40, med |-> 20],
     [high |-> 95, med_high |-> 95, med |-> 95],
     [high |-> 55, med_high |-> 60, med |-> 35],
     [high |-> 70, med_high |-> 40, med |-> 50]}
TIERS == {"Low", "Medium", "Med-High", "High"}
ToolInputs == {"NZMAC", "NZRAPP", "NZART", "OTHER"}

PureCalls ==
    {[fn |-> "score_nzmac", args |-> <<l, f, p, h>>] :
        l \in LoadInputs, f \in FrequencyInputs, p \in PostureInputs,
        h \in HeightInputs}
    \cup
    {[fn |-> "score_nzrapp", args |-> <<k, d, s, f>>] :
        k \in ForceInputs, d \in DistanceInputs, s \in SurfaceInputs,
        f \in FrequencyInputs}
    \cup
    {[fn |-> "score_nzart", args |-> <<r, c, n, p>>] :
        r \in RepsInputs, c \in CycleInputs, n \in NeckInputs,
        p \in PostureInputs}
    \cup
    {[fn |-> "tier_from_score", args |-> <<s, t>>] :
        s \in ScoreInputs, t \in ThresholdInputs}
    \cup
    {[fn |-> "recommendations", args |-> <<t, u>>] :
        t \in TIERS, u \in ToolInputs}

Return(v) ==
    /\ ~ret.done
    /\ ret' = [done |-> TRUE, v |-> v]
    /\ UNCHANGED <<thresholds, df, page, msg, preview, recs, upload, call>>

CallScoreNzmac ==
    /\ call.fn = "score_nzmac"
    /\ Return(ScoreNzmac(call.args[1], call.args[2], call.args[3], call.args[4]))

CallScoreNzrapp ==
    /\ call.fn = "score_nzrapp"
    /\ Return(ScoreNzrapp(call.args[1], call.args[2], call.args[3], call.args[4]))

CallScoreNzart ==
    /\ call.fn = "score_nzart"
    /\ Return(ScoreNzart(call.args[1], call.args[2], call.args[3], call.args[4]))

CallTierFromScore ==
    /\ call.fn = "tier_from_score"
    /\ Return(TierFromScore(call.args[1], call.args[2]))

CallRecommendations ==
    /\ call.fn = "recommendations"
    /\ Return(Recommendations(call.args[1], call.args[2]))

PureInit ==
    /\ InitState
    /\ call \in PureCalls
    /\ ret = NoRet

PureNext ==
    \/ CallScoreNzmac
    \/ CallScoreNzrapp
    \/ CallScoreNzart
    \/ CallTierFromScore
    \/ CallRecommendations

SpecPure == PureInit /\ [][PureNext]_vars

----------------------------------------------------------------------------
(* Properties                                                              *)

\* C1: the session thresholds any later tier_from_score call reads always
\* satisfy med <= med_high <= high, after any runs of the Admin page
\* (a run stopped part-way by a slider included) and resets.
ThresholdsOrdered ==
    /\ thresholds.med <= thresholds.med_high
    /\ thresholds.med_high <= thresholds.high

SCORERS == {"score_nzmac", "score_nzrapp", "score_nzart"}

\* C2: whatever the numeric and categorical inputs, each of the three
\* scorers returns a score >= 5 and <= 100.
ScoreWithinBounds ==
    (ret.done /\ call.fn \in SCORERS) =>
        (RLe(I(5), ret.v) /\ RLe(ret.v, I(100)))

\* C2 witness: a lifting score whose product of points and penalties
\* (75 * 1.4 * 1.2 * 1.25) exceeds 100 came back as 100, and a call with an
\* input below its table and an unrecognised category came back as 5.
ScoreClampedReached ==
    /\ ret.done
    /\ \/ /\ call.fn = "score_nzmac"
          /\ call.args = <<I(80), I(120), "twisting", "floor">>
          /\ ret.v = I(100)
       \/ /\ call.fn = "score_nzrapp"
          /\ call.args = <<I(-5), I(-1), "gravel", I(-1)>>
          /\ ret.v = I(5)

\* C3: tier_from_score returns High if score >= high, else Med-High if
\* score >= med_high, else Medium if score >= med, else Low, for every score
\* and threshold set; with the defaults 70 -> High, 69.9 -> Med-High,
\* 50 -> Med-High, 35 -> Medium, 34.9 -> Low.
TierRule ==
    (ret.done /\ call.fn = "tier_from_score") =>
        LET score == call.args[1]
            thres == call.args[2]
            geHigh == score.num >= thres.high * score.den
            geMedHigh == score.num >= thres.med_high * score.den
            geMed == score.num >= thres.med * score.den
        IN  /\ (ret.v = "High") = geHigh
            /\ (ret.v = "Med-High") = (~geHigh /\ geMedHigh)
            /\ (ret.v = "Medium") = (~geHigh /\ ~geMedHigh /\ geMed)
            /\ (ret.v = "Low") = (~geHigh /\ ~geMedHigh /\ ~geMed)
            /\ thres = DEFAULT_THRESHOLDS =>
                /\ score = I(70) => ret.v = "High"
                /\ score = R(699, 10) => ret.v = "Med-High"
                /\ score = I(50) => ret.v = "Med-High"
                /\ score = I(35) => ret.v = "Medium"
                /\ score = R(349, 10) => ret.v = "Low"

\* C3 witness: a score equal to the high threshold was classified High.
TierBoundaryReached ==
    /\ ret.done
    /\ call.fn = "tier_from_score"
    /\ call.args = <<I(70), DEFAULT_THRESHOLDS>>
    /\ ret.v = "High"

\* score is about n: it rounds to the integer n
About(score, n) == RLe(R(2 * n - 1, 2), score) /\ RLt(score, R(2 * n + 1, 2))

\* C4: under the default thresholds the lifting scenario scores about 58
\* (Med-High), the push/pull scenario about 42 (Medium) and the repetitive
\* scenario about 76 (High).
ScenarioScores ==
    ret.done =>
        /\ (call.fn = "score_nzmac"
            /\ call.args = <<I(12), I(30), "bending", "knee">>) =>
                /\ About(ret.v, 58)
                /\ TierFromScore(ret.v, DEFAULT_THRESHOLDS) = "Med-High"
        /\ (call.fn = "score_nzrapp"
            /\ call.args = <<I(18), I(25), "smooth", I(20)>>) =>
                /\ About(ret.v, 42)
                /\ TierFromScore(ret.v, DEFAULT_THRESHOLDS) = "Medium"
        /\ (call.fn = "score_nzart"
            /\ call.args = <<I(28), I(12), "severe", "reaching">>) =>
                /\ About(ret.v, 76)
                /\ TierFromScore(ret.v, DEFAULT_THRESHOLDS) = "High"

TOOL_SPECIFIC == {REC_NZMAC, REC_NZRAPP, REC_NZART}

\* C5: for every tier and tool, recommendations returns between 1 and 4
\* entries, and for tier Low none of the three tool-specific suggestions.
RecommendationsBounded ==
    (ret.done /\ call.fn = "recommendations") =>
        /\ Len(ret.v) >= 1
        /\ Len(ret.v) <= 4
        /\ call.args[1] = "Low" => Range(ret.v) \cap TOOL_SPECIFIC = {}

\* C5 witness: a High-tier call for a known tool, whose list of five was cut.
RecommendationsCutReached ==
    /\ ret.done
    /\ call.fn = "recommendations"
    /\ call.args = <<"High", "NZMAC">>
    /\ Len(ret.v) = 4

\* C6: for tier Med-High or High and each of the three tools, the list
\* starts with the engineering-controls entry and contains that tool's
\* specific suggestion.
ToolSpecificIncluded ==
    (/\ ret.done
     /\ call.fn = "recommendations"
     /\ call.args[1] \in {"Med-High", "High"}
     /\ call.args[2] \in {"NZMAC", "NZRAPP", "NZART"}) =>
        /\ ret.v[1] = REC_ENGINEERING
        /\ (IF call.args[2] = "NZMAC" THEN REC_NZMAC
            ELSE IF call.args[2] = "NZRAPP" THEN REC_NZRAPP
            ELSE REC_NZART) \in Range(ret.v)

READ_ONLY_PAGES == {"History & Trends", "Admin (Thresholds)"}

\* C7: a run of the Admin page (threshold changes, tier preview, reset) or of
\* the History page leaves the store as it was: the same records in the same
\* order, each with its risk_score and risk_tier; only the preview changes.
ReclassifyLeavesStore ==
    [][page' \in READ_ONLY_PAGES => df' = df]_vars

\* C7 witness: the Admin page previewed, under changed thresholds, a tier
\* other than the one stored with the record.
PreviewDiffersReached ==
    /\ page = "Admin (Thresholds)"
    /\ thresholds # DEFAULT_THRESHOLDS
    /\ Len(preview) = Len(df.rows)
    /\ \E i \in DOMAIN preview :
        /\ df.rows[i]["risk_tier"].k = "str"
        /\ df.rows[i]["risk_tier"].s # preview[i]

\* C8: an import that fails reports the error and leaves the store exactly
\* as it was; the store is replaced only when the whole import succeeds.
ImportAllOrNothing ==
    [][page' = "Import/Export" =>
        /\ msg' \in {"Import failed", "Data replaced."}
        /\ msg' = "Import failed" => df' = df
        /\ df' # df => msg' = "Data replaced."]_vars

\* C8 witness: an import of a file that cannot be parsed was reported as
\* failed, with records in the store.
ImportFailedReached ==
    /\ page = "Import/Export"
    /\ msg = "Import failed"
    /\ upload = MALFORMED_FILE
    /\ Len(df.rows) > 0

\* Two cells hold the same value (None and NaN both being null)
SameCell(a, b) == (IsNull(a) /\ IsNull(b)) \/ (a.k = b.k /\ a = b)

SameRows(a, b) ==
    /\ Len(a) = Len(b)
    /\ \A i \in DOMAIN a : \A c \in Range(COLUMNS) : SameCell(a[i][c], b[i][c])

\* C9: importing the export of the store leaves a store with the same rows
\* and exactly the schema's columns in the fixed order; any successful
\* import leaves exactly the schema's columns in the fixed order, absent
\* columns null and extra columns dropped.
ExportImportRoundTrip ==
    [][page' = "Import/Export" =>
        /\ upload' = ToCsv(df) =>
            /\ msg' = "Data replaced."
            /\ SameRows(df'.rows, df.rows)
        /\ msg' = "Data replaced." =>
            /\ df'.columns = COLUMNS
            /\ Len(df'.rows) = Len(upload'.lines)
            /\ \A i \in DOMAIN df'.rows :
                /\ DOMAIN df'.rows[i] = Range(COLUMNS)
                /\ \A c \in Range(COLUMNS) \ Range(upload'.header) :
                    IsNull(df'.rows[i][c])]_vars

\* C10: the record appended by "Calculate risk & save" stores a risk_tier
\* equal to tier_from_score of its stored (rounded) risk_score under the
\* thresholds in effect at the save.
StoredTierMatchesStoredScore ==
    (page = "New Survey" /\ msg = "Saved!") =>
        LET row == df.rows[Len(df.rows)]
        IN  row["risk_tier"].s = TierFromScore(row["risk_score"].v, thresholds)

====
